---- MODULE Spec2Model ----
(***************************************************************************)
(* A model of the three scanners of the repository:                        *)
(*   comprehensive_strategy_v4.py  (check_all_strategies, process_stock,   *)
(*                                  main)                                  *)
(*   stock_strategy_picker.py      (analyze_stock, main)                   *)
(*   weekly_trend_filter.py        (calculate_macd, check_strategy,        *)
(*                                  process_stock, main)                   *)
(*                                                                         *)
(* Numbers.  Prices are integers in units of 0.1 yuan, volumes are         *)
(* integers, pct_chg is an integer in units of 0.1 percent (9.5% = 95).    *)
(* A comparison against a rolling mean or a fractional multiple is         *)
(* cross-multiplied, so it is exact:  v > mean5 * 2.5  is  2*v > sum5.     *)
(* The exponential averages of calculate_macd are kept in fixed point      *)
(* with FP units per price unit.                                           *)
(*                                                                         *)
(* Names.  The rule names of the source are Chinese strings; they are      *)
(* written here in pinyin:                                                 *)
(*   GeShanDaNiu = 隔山打牛   GaoLiangBuPo = 高量不破                      *)
(*   SanWeiYiTi  = 三位一体   CaoShangFei  = 草上飞                        *)
(*   ZhuiZhangTing = 追涨停                                                *)
(***************************************************************************)
EXTENDS Integers, Sequences, FiniteSets, TLC

VARIABLES
    prog,        \* which of the three scripts is running: "v4", "picker", "weekly"
    df,          \* rule engine: the series (DataFrame rows) handed to the rule
    edited,      \* rule engine: offsets from the last bar that were given a shape
    rpc,         \* rule engine: "input" while the series is built, "done" after the rule ran
    out,         \* rule engine: what the rule returned
    names_dict,  \* picker: code -> name, as main builds it from stock_names.csv
    names_exists,   \* whether stock_names.csv exists
    dir_exists,     \* whether the directory stock_data exists
    listing,     \* os.listdir(stock_data), in the order the system returns it
    mpc,         \* where main is: "start", "loaded", "map", "joined", "write", "exit", "crash"
    names_df,    \* v4, weekly: the rows of stock_names.csv as main keeps them
    valid_codes, \* v4, weekly: the codes whose name is no ST name
    files,       \* the file names handed to the pool, in order
    status,      \* per dispatched unit: "pending", "running", "done"
    future,      \* per dispatched unit: the outcome of its call, once done
    taken,       \* how many results main has taken from the pool
    results,     \* the list main collects from the pool
    strategy_buckets,  \* v4: rule name -> rows, in insertion order
    hits,        \* picker: the results that are not None
    daily_list,  \* weekly: codes with a daily match
    weekly_list, \* weekly: codes with a weekly match
    written      \* the result files written so far: [file, rows]

rvars == <<df, edited, rpc, out>>

mvars == <<names_exists, dir_exists, listing, mpc, names_df, valid_codes, files, status,
           future, taken, results, strategy_buckets, hits, daily_list, weekly_list, written>>

vars == <<prog, df, edited, rpc, out, names_dict, names_exists, dir_exists, listing, mpc,
          names_df, valid_codes, files, status, future, taken, results, strategy_buckets,
          hits, daily_list, weekly_list, written>>

-----------------------------------------------------------------------------
(* Bounds of the model *)

MaxEdits == 5         \* at most this many bars of a series differ from its base
MaxFiles == 3         \* at most this many files in the directory stock_data
PoolSize == 2         \* worker processes of the pool (the number of CPUs)

-----------------------------------------------------------------------------
(* Python values and indexing *)

\* a value that may be None is a sequence of at most one element
None == <<>>
Some(x) == <<x>>
IsNone(r) == Len(r) = 0
Get(r) == r[1]

\* the outcome of a call is the value it returns, or the exception it raises
Raise == <<"raise", "raise">>
IsRaise(r) == Len(r) = 2

\* a[i] of a Python sequence (0-based, negative i counts from the end);
\* an index out of range is outside the domain of a, as IndexError is
Py(a, i) == IF i >= 0 THEN a[i + 1] ELSE a[Len(a) + i + 1]

\* the positions (0-based) of the Python slice a[lo:hi] for a of length n
PySliceIdx(n, lo, hi) ==
    LET l == IF lo < 0 THEN (IF n + lo < 0 THEN 0 ELSE n + lo) ELSE (IF lo > n THEN n ELSE lo)
        h == IF hi < 0 THEN (IF n + hi < 0 THEN 0 ELSE n + hi) ELSE (IF hi > n THEN n ELSE hi)
    IN  l .. (h - 1)

\* max() of a non-empty collection; of an empty one it is undefined (ValueError)
PyMax(S) == CHOOSE x \in S : \A y \in S : y <= x

Range(s) == {s[k] : k \in 1..Len(s)}

Count(s, x) == Cardinality({k \in 1..Len(s) : s[k] = x})

\* [df[f] for every row].values
Col(d, f) == [k \in 1..Len(d) |-> d[k][f]]

RECURSIVE SumFrom(_, _, _)
\* a[lo] + ... + a[hi], 0-based and inclusive
SumFrom(a, lo, hi) == IF lo > hi THEN 0 ELSE a[hi + 1] + SumFrom(a, lo, hi - 1)

RECURSIVE SumSet(_, _)
\* the sum of f over the finite set S of positions
SumSet(f, S) == IF S = {} THEN 0 ELSE LET k == CHOOSE k \in S : TRUE
                                      IN  f[k] + SumSet(f, S \ {k})

\* rolling(w).sum() at 0-based position i; rolling(w).mean() is this over w
RollSum(a, w, i) == SumFrom(a, i - w + 1, i)

\* rolling(w).mean() is NaN at the first w-1 positions; a comparison with NaN is False
RollDefined(w, i) == i >= w - 1

-----------------------------------------------------------------------------
(* Input series.  A series is a base series (flat, steadily rising, or      *)
(* rising with two bars a week) in which a few of the most recent bars are  *)
(* replaced by shaped bars.                                                 *)

Bar(d, o, h, l, c, v, p) ==
    [date |-> d, open |-> o, high |-> h, low |-> l, close |-> c, volume |-> v, pct_chg |-> p]

\* the calendar day of the k-th trading day: five trading days a week, day 1 a Monday
CalDay(k) == 7 * ((k - 1) \div 5) + ((k - 1) % 5) + 1

\* the calendar day of the k-th bar of an instrument that trades on Mondays
\* and Thursdays only
SparseDay(k) == 7 * ((k - 1) \div 2) + 3 * ((k - 1) % 2) + 1

\* bar k (1-based) of a base series
BaseBar(base, k) ==
    CASE base = "flat"   -> Bar(CalDay(k), 100, 100, 100, 100, 10, 0)
      [] base = "rising" -> Bar(CalDay(k), 49 + k, 50 + k, 49 + k, 50 + k, 10, 10)
      [] base = "sparse" -> Bar(SparseDay(k), 59 + k, 60 + k, 59 + k, 60 + k, 10, 10)

BaseSeries(base, n) == [k \in 1..n |-> BaseBar(base, k)]

\* a shaped bar in place of the base bar b; prices are relative to b's close
ShapeBar(shape, b) ==
    CASE shape = "surge"     -> Bar(b.date, b.close, b.close + 10, b.close, b.close + 10, 20, 99)
      [] shape = "anchor"    -> Bar(b.date, b.close, b.close, b.close - 10, b.close - 5, 40, -50)
      [] shape = "anchor99"  -> Bar(b.date, b.close, b.close, b.close - 10, b.close - 5, 40, 99)
      [] shape = "pullback"  -> Bar(b.date, b.close - 2, b.close - 2, b.close - 8, b.close - 5, 15, -20)
      [] shape = "pullback50" -> Bar(b.date, b.close - 2, b.close - 2, b.close - 8, b.close - 5, 20, -20)
      [] shape = "highvol"   -> Bar(b.date, b.close, b.close + 5, b.close, b.close + 5, 100, 50)
      [] shape = "breakout"  -> Bar(b.date, b.close, b.close + 12, b.close, b.close + 12, 100, 50)
      [] shape = "quietup"   -> Bar(b.date, b.close + 8, b.close + 9, b.close + 8, b.close + 9, 10, 11)
      [] shape = "weakup"    -> Bar(b.date, b.close, b.close + 1, b.close, b.close + 1, 12, 10)

\* the input series of each script: which base, which lengths
Inputs(pr) ==
    CASE pr = "v4"     -> ({"flat"} \X {2, 3, 20, 64, 65, 66}) \cup ({"rising"} \X {64, 65})
      [] pr = "picker" -> ({"rising"} \X {59, 60, 61}) \cup ({"flat"} \X {60})
      [] pr = "weekly" -> ({"rising"} \X {34, 35, 36}) \cup ({"flat"} \X {35})

\* the shapes a bar at the given offset from the last bar may take
Allowed(pr, off) ==
    CASE pr = "v4" ->
            (CASE off = 0  -> {"breakout", "quietup"}
               [] off = 1  -> {"surge", "highvol", "pullback"}
               [] off = 3  -> {"anchor"}
               [] off = 4  -> {"surge"}
               [] off = 5  -> {"pullback", "pullback50"}
               [] off = 9  -> {"anchor", "anchor99"}
               [] off = 10 -> {"surge"}
               [] OTHER    -> {})
      [] pr = "picker" ->
            (CASE off = 0  -> {"breakout", "weakup"}
               [] off = 1  -> {"surge", "highvol"}
               [] off = 2  -> {"surge", "pullback"}
               [] off = 5  -> {"surge"}
               [] off = 6  -> {"surge"}
               [] OTHER    -> {})
      [] pr = "weekly" ->
            (CASE off = 0  -> {"breakout", "weakup", "pullback"}
               [] off = 1  -> {"highvol"}
               [] off = 5  -> {"highvol"}
               [] off = 6  -> {"highvol"}
               [] OTHER    -> {})

Offsets == 0..10

-----------------------------------------------------------------------------
(* comprehensive_strategy_v4.py: the rule catalog *)

MinLenV4 == 65

\* IsAnchor reading the surge on the anchor bar itself instead of the bar before it
IsAnchor_samebar(d, idx) ==
    LET c == Col(d, "close")  o == Col(d, "open")
        v == Col(d, "volume") p == Col(d, "pct_chg")
    IN  /\ Py(p, idx) > 95
        /\ Py(c, idx) < Py(o, idx)
        /\ Py(v, idx) = PyMax({Py(v, k) : k \in PySliceIdx(Len(d), idx - 20, idx + 1)})

\* the anchor test of rule 1 at 0-based position idx
IsAnchor(d, idx) ==
    LET c == Col(d, "close")  o == Col(d, "open")
        v == Col(d, "volume") p == Col(d, "pct_chg")
    IN  /\ Py(p, idx - 1) > 95
        /\ Py(c, idx) < Py(o, idx)
        /\ Py(v, idx) = PyMax({Py(v, k) : k \in PySliceIdx(Len(d), idx - 20, idx + 1)})

\* all(l[from:] >= l[idx])
LowsHold(d, from, idx) ==
    LET l == Col(d, "low")
    IN  \A k \in PySliceIdx(Len(d), from, Len(d)) : Py(l, k) >= Py(l, idx)

RECURSIVE PullbackLoop(_, _, _)
\* the inner loop of rule 1 from j on: TRUE when it reaches the append and break
PullbackLoop(d, idx, j) ==
    LET c == Col(d, "close")  o == Col(d, "open")
        h == Col(d, "high")   v == Col(d, "volume")
    IN  IF j >= Len(d) THEN FALSE
        ELSE IF /\ Py(c, j) < Py(o, j)
                /\ 2 * Py(v, j) < Py(v, idx)
                /\ Py(c, -1) > Py(h, j)
                /\ LowsHold(d, idx, idx)
             THEN TRUE
             ELSE PullbackLoop(d, idx, j + 1)

RECURSIVE GeShanDaNiu(_, _)
\* rule 1, the outer loop from i on: what it appends to hits
GeShanDaNiu(d, i) ==
    IF i >= 15 THEN <<>>
    ELSE LET idx == Len(d) - i
         IN  (IF IsAnchor(d, idx) /\ PullbackLoop(d, idx, idx + 1)
              THEN <<"GeShanDaNiu">> ELSE <<>>)
             \o GeShanDaNiu(d, i + 1)

RECURSIVE GaoLiangBuPo(_, _)
\* rule 2, the loop from i on: what it appends to hits
GaoLiangBuPo(d, i) ==
    IF i >= 10 THEN <<>>
    ELSE LET idx == Len(d) - 1 - i
             c == Col(d, "close")  o == Col(d, "open")
             h == Col(d, "high")   v == Col(d, "volume")
         IN  IF /\ RollDefined(5, idx)
                /\ 2 * Py(v, idx) > RollSum(v, 5, idx)
                /\ Py(c, idx) > Py(o, idx)
                /\ LowsHold(d, idx + 1, idx)
                /\ Py(c, -1) > Py(h, idx)
             THEN <<"GaoLiangBuPo">>
             ELSE GaoLiangBuPo(d, i + 1)

\* rule 3
SanWeiYiTi(d) ==
    LET c == Col(d, "close")  v == Col(d, "volume")
        n == Len(d)
    IN  IF /\ RollDefined(60, n - 2)
           /\ 60 * Py(c, -1) > RollSum(c, 60, n - 1)
           /\ 60 * Py(c, -2) <= RollSum(c, 60, n - 2)
           /\ 10 * Py(v, -1) > 3 * RollSum(v, 5, n - 1)
        THEN <<"SanWeiYiTi">> ELSE <<>>

\* rule 4
CaoShangFei(d) ==
    LET c == Col(d, "close")  l == Col(d, "low")  v == Col(d, "volume")
        n == Len(d)
    IN  IF /\ RollDefined(21, n - 1)
           /\ 13 * RollSum(c, 5, n - 1) > 5 * RollSum(c, 13, n - 1)
           /\ 21 * RollSum(c, 13, n - 1) > 13 * RollSum(c, 21, n - 1)
           /\ 13 * Py(l, -1) >= RollSum(c, 13, n - 1)
           /\ 5 * Py(c, -1) > RollSum(c, 5, n - 1)
           /\ 5 * Py(v, -1) > RollSum(v, 5, n - 1)
        THEN <<"CaoShangFei">> ELSE <<>>

\* the conditions of rule 5 on a series of at least 3 bars
ZhuiZhangTingCond(d) ==
    LET c == Col(d, "close")  o == Col(d, "open")  h == Col(d, "high")
        v == Col(d, "volume") p == Col(d, "pct_chg")
    IN  /\ Py(p, -2) > 95
        /\ Py(v, -1) < Py(v, -2)
        /\ Py(c, -1) > Py(o, -1)
        /\ 50 * Py(c, -1) > 49 * Py(h, -2)

\* rule 5
ZhuiZhangTing(d) ==
    IF Len(d) >= 3 /\ ZhuiZhangTingCond(d) THEN <<"ZhuiZhangTing">> ELSE <<>>

\* check_all_strategies rejecting a series of exactly MinLenV4 bars as well
check_all_strategies_late(d) ==
    IF Len(d) <= MinLenV4 THEN <<>>
    ELSE GeShanDaNiu(d, 2) \o GaoLiangBuPo(d, 1) \o SanWeiYiTi(d)
            \o CaoShangFei(d) \o ZhuiZhangTing(d)

check_all_strategies(d) ==
    IF Len(d) < MinLenV4 THEN <<>>
    ELSE GeShanDaNiu(d, 2) \o GaoLiangBuPo(d, 1) \o SanWeiYiTi(d)
            \o CaoShangFei(d) \o ZhuiZhangTing(d)

-----------------------------------------------------------------------------
(* Instrument codes and names.  A code is a sequence of decimal digits, a   *)
(* name a sequence of characters; "Tui" stands for the one character 退.    *)

RECURSIVE Zfill(_, _)
\* str.zfill(w)
Zfill(s, w) == IF Len(s) >= w THEN s ELSE Zfill(<<0>> \o s, w)

\* s.startswith(pre)
StartsWith(s, pre) == Len(s) >= Len(pre) /\ SubSeq(s, 1, Len(pre)) = pre

\* sub in s
Contains(s, sub) ==
    \E k \in 1..(Len(s) - Len(sub) + 1) : SubSeq(s, k, k + Len(sub) - 1) = sub

UnknownName == <<"W", "e", "i", "Z", "h", "i">>

-----------------------------------------------------------------------------
(* stock_strategy_picker.py: analyze_stock *)

MA_FAST == 13
MA_SLOW == 55
VMA_WINDOW == 5
LIMIT_UP_THRESHOLD == 98
LOOKBACK_WINDOW == 6

\* df.tail(w): the 0-based positions of the last w rows
TailIdx(n, w) == PySliceIdx(n, n - w, n)

\* 1. has_recent_limit_up: any(previous_days pct_chg >= LIMIT_UP_THRESHOLD)
has_recent_limit_up(d) ==
    LET recent == TailIdx(Len(d), LOOKBACK_WINDOW)
        previous_days == recent \ {Len(d) - 1}
    IN  \E k \in previous_days : Py(Col(d, "pct_chg"), k) >= LIMIT_UP_THRESHOLD

\* 2. on_support: MA13 > MA55 and close >= MA13 * 0.99, at the current day
on_support(d) ==
    LET c == Col(d, "close")
        n == Len(d)
    IN  /\ RollDefined(MA_SLOW, n - 1)
        /\ MA_SLOW * RollSum(c, MA_FAST, n - 1) > MA_FAST * RollSum(c, MA_SLOW, n - 1)
        /\ 100 * MA_FAST * Py(c, -1) >= 99 * RollSum(c, MA_FAST, n - 1)

\* is_shrinking_vol without the 70% factor
is_shrinking_vol_loose(d) ==
    LET v == Col(d, "volume")
        recent == TailIdx(Len(d), LOOKBACK_WINDOW)
        previous_days == recent \ {Len(d) - 1}
        max_vol_recent == PyMax({Py(v, k) : k \in previous_days})
    IN  Py(v, -2) <= max_vol_recent

\* 3. is_shrinking_vol: yesterday's volume < previous_days volume max * 0.7
is_shrinking_vol(d) ==
    LET v == Col(d, "volume")
        recent == TailIdx(Len(d), LOOKBACK_WINDOW)
        previous_days == recent \ {Len(d) - 1}
        max_vol_recent == PyMax({Py(v, k) : k \in previous_days})
    IN  10 * Py(v, -2) < 7 * max_vol_recent

\* 4a. is_positive_candle: today's pct_chg > 1.0
is_positive_candle(d) == Py(Col(d, "pct_chg"), -1) > 10

\* 4b. is_volume_rebound: today's volume > yesterday's and > VMA5
is_volume_rebound(d) ==
    LET v == Col(d, "volume")
        n == Len(d)
    IN  /\ Py(v, -1) > Py(v, -2)
        /\ RollDefined(VMA_WINDOW, n - 1)
        /\ VMA_WINDOW * Py(v, -1) > RollSum(v, VMA_WINDOW, n - 1)

\* any(keyword in name for keyword in ['ST', '退', '*'])
PickerExcluded(name) ==
    \/ Contains(name, <<"S", "T">>)
    \/ Contains(name, <<"Tui">>)
    \/ Contains(name, <<"*">>)

\* df.sort_values('日期')
SortByDate(rows) == SortSeq(rows, LAMBDA a, b : a.date < b.date)

\* the body of the try block of analyze_stock.  file: [code, ok, rows] is what
\* pd.read_csv finds at file_path; ok is FALSE when the file does not parse,
\* lacks a column the function reads or holds a value that is no number
analyze_stock_try(file, names) ==
    IF ~file.ok THEN Raise
    ELSE IF Len(file.rows) < MA_SLOW + VMA_WINDOW THEN None
    ELSE LET d == SortByDate(file.rows)
             raw_code == Zfill(file.code, 6)
             name == IF raw_code \in DOMAIN names THEN names[raw_code]
                     ELSE UnknownName
         IN  IF PickerExcluded(name) THEN None
             ELSE IF /\ has_recent_limit_up(d)
                     /\ on_support(d)
                     /\ is_shrinking_vol(d)
                     /\ is_positive_candle(d)
                     /\ is_volume_rebound(d)
                  THEN Some([code |-> raw_code, name |-> name, date |-> Py(d, -1).date,
                             close |-> Py(d, -1).close, pct |-> Py(d, -1).pct_chg])
                  ELSE None

\* try: ... except: return None
analyze_stock(file, names) ==
    LET r == analyze_stock_try(file, names)
    IN  IF IsRaise(r) THEN None ELSE r

-----------------------------------------------------------------------------
(* weekly_trend_filter.py: calculate_macd and check_strategy *)

FP == 1000            \* fixed-point units per price unit in the exponential averages

MinLenMacd == 35

RECURSIVE EwmFrom(_, _, _)
\* the recurrence of ewm continued from the values acc already computed
EwmFrom(xs, span, acc) ==
    IF Len(acc) = Len(xs) THEN acc
    ELSE EwmFrom(xs, span,
                 Append(acc, ((span - 1) * acc[Len(acc)] + 2 * xs[Len(acc) + 1]) \div (span + 1)))

\* xs.ewm(span, adjust=False).mean():
\* y[0] = x[0], y[t] = (1-a)*y[t-1] + a*x[t] with a = 2/(span+1)
Ewm(xs, span) == EwmFrom(xs, span, <<xs[1]>>)

\* <<dif, dea>> of the prices, in fixed point
calculate_macd(prices) ==
    LET n == Len(prices)
        scaled == [k \in 1..n |-> prices[k] * FP]
        exp1 == Ewm(scaled, 12)
        exp2 == Ewm(scaled, 26)
        dif == [k \in 1..n |-> exp1[k] - exp2[k]]
        dea == Ewm(dif, 9)
    IN  <<dif, dea>>

\* the three conditions of check_strategy on a series of at least 6 periods
MacdCond(d) ==
    LET macd == calculate_macd(Col(d, "close"))
        v == Col(d, "volume")
        n == Len(d)
        last_dif == Py(macd[1], -1)
        last_dea == Py(macd[2], -1)
        last_vol == Py(v, -1)
        sum_vol == SumFrom(v, n - 6, n - 2)
        is_water_up == last_dif > 0 /\ last_dea > 0
        is_gold_cross == last_dif > last_dea
        vol_breakout == 50 * last_vol > 13 * sum_vol
    IN  is_water_up /\ is_gold_cross /\ vol_breakout

check_strategy(d) ==
    IF Len(d) < MinLenMacd THEN FALSE ELSE MacdCond(d)

-----------------------------------------------------------------------------
(* The files of a run: stock_names.csv and the directory stock_data *)

\* the series base of length n with the bars at the offsets of DOMAIN edits shaped
Craft(base, n, edits) ==
    [k \in 1..n |-> IF (n - k) \in DOMAIN edits
                    THEN ShapeBar(edits[n - k], BaseBar(base, k))
                    ELSE BaseBar(base, k)]

S1 == <<0, 0, 0, 0, 0, 1>>
S2 == <<0, 0, 0, 0, 0, 2>>
S3 == <<0, 0, 0, 0, 0, 3>>
S4 == <<0, 0, 0, 0, 0, 4>>
S5 == <<3, 0, 0, 0, 0, 5>>
S6 == <<6, 0, 0, 0, 0, 6>>
S7 == <<0, 0, 0, 0, 0, 7>>
S8 == <<0, 0, 0, 0, 0, 8>>

Stems == {S1, S2, S3, S4, S5, S6, S7, S8}

RisingPick == Craft("rising", 65, (2 :> "surge") @@ (0 :> "breakout"))

\* what pd.read_csv finds in stock_data/<stem>.csv: the code column as parsed
\* (an integer, so without leading zeros), whether the file parses, its rows
Disk ==
    (S1 :> [code |-> <<1>>, ok |-> TRUE,
            rows |-> Craft("flat", 65, (10 :> "surge") @@ (9 :> "anchor") @@ (5 :> "pullback")
                                           @@ (1 :> "surge") @@ (0 :> "quietup"))]) @@
    (S2 :> [code |-> <<2>>, ok |-> TRUE,
            rows |-> Craft("flat", 65, (1 :> "surge") @@ (0 :> "quietup"))]) @@
    (S3 :> [code |-> <<3>>, ok |-> TRUE,
            rows |-> Craft("flat", 65, (10 :> "surge") @@ (9 :> "anchor") @@ (4 :> "surge")
                                           @@ (3 :> "anchor") @@ (1 :> "pullback"))]) @@
    (S4 :> [code |-> <<4>>, ok |-> FALSE, rows |-> <<>>]) @@
    (S5 :> [code |-> <<3, 0, 0, 0, 0, 5>>, ok |-> TRUE, rows |-> RisingPick]) @@
    (S6 :> [code |-> <<6, 0, 0, 0, 0, 6>>, ok |-> TRUE, rows |-> RisingPick]) @@
    (S7 :> [code |-> <<7>>, ok |-> TRUE, rows |-> RisingPick]) @@
    (S8 :> [code |-> <<8>>, ok |-> TRUE, rows |-> Craft("sparse", 72, (0 :> "breakout"))])

\* the rows of stock_names.csv, the code column as pandas parses it
NamesCsv ==
    << [code |-> <<1>>, name |-> <<"P", "i", "n", "g", "A", "n">>],
       [code |-> <<2>>, name |-> <<"W", "a", "n", "K", "e">>],
       [code |-> <<3>>, name |-> <<"G", "u", "o", "N", "o", "n", "g">>],
       [code |-> <<4>>, name |-> <<"S", "h", "e", "n", "Z", "h", "e", "n">>],
       [code |-> <<3, 0, 0, 0, 0, 5>>, name |-> <<"C", "h", "u", "a", "n", "g">>],
       [code |-> <<6, 0, 0, 0, 0, 6>>, name |-> <<"*", "S", "T", "D", "o", "n", "g">>],
       [code |-> <<7>>, name |-> <<"Q", "u", "a", "n", "X", "i", "n">>],
       [code |-> <<8>>, name |-> <<"Y", "a", "n", "T", "i", "a", "n">>] >>

\* a file name of the directory
CsvName(stem) == [stem |-> stem, ext |-> "csv"]

\* names_df after names_df['code'] = names_df['code'].astype(str).str.zfill(6)
LoadNames == [k \in 1..Len(NamesCsv) |->
                 [code |-> Zfill(NamesCsv[k].code, 6), name |-> NamesCsv[k].name]]

\* name.str.contains('ST|st')
IsST(name) == Contains(name, <<"S", "T">>) \/ Contains(name, <<"s", "t">>)

\* names_df[~names_df['name'].str.contains('ST|st')]
NotST(ndf) == SelectSeq(ndf, LAMBDA r : ~IsST(r.name))

\* dict(zip(names_df['code'].str.zfill(6), names_df['name']))
NamesDict == [c \in {Zfill(NamesCsv[k].code, 6) : k \in 1..Len(NamesCsv)} |->
                 LET k == CHOOSE k \in 1..Len(NamesCsv) :
                            /\ Zfill(NamesCsv[k].code, 6) = c
                            /\ \A m \in (k + 1)..Len(NamesCsv) : Zfill(NamesCsv[m].code, 6) # c
                 IN  NamesCsv[k].name]

-----------------------------------------------------------------------------
(* comprehensive_strategy_v4.py: process_stock *)

\* the body of the try block of process_stock
process_stock_try(file_name) ==
    LET file == Disk[file_name.stem]
    IN  IF ~file.ok THEN Raise
        ELSE LET hit_list == check_all_strategies(file.rows)
             IN  IF hit_list # <<>>
                 THEN Some([code |-> file_name.stem, strategies |-> hit_list,
                            last_pct |-> Py(file.rows, -1).pct_chg])
                 ELSE None

\* process_stock without its except clause
process_stock_nocatch(file_name) ==
    LET code == file_name.stem
    IN  IF StartsWith(code, <<3, 0>>) \/ StartsWith(code, <<6, 8>>) THEN None
        ELSE process_stock_try(file_name)

process_stock(file_name) ==
    LET code == file_name.stem
    IN  IF StartsWith(code, <<3, 0>>) \/ StartsWith(code, <<6, 8>>) THEN None
        ELSE LET r == process_stock_try(file_name)
             IN  IF IsRaise(r) THEN None ELSE r

-----------------------------------------------------------------------------
(* weekly_trend_filter.py: the resampling and process_stock *)

\* the week (ending on a Sunday) of a calendar day
Week(date) == (date - 1) \div 7

RECURSIVE SortedSeq(_)
\* the elements of a finite set of integers in ascending order
SortedSeq(S) ==
    IF S = {} THEN <<>>
    ELSE LET m == CHOOSE m \in S : \A x \in S : m <= x
         IN  <<m>> \o SortedSeq(S \ {m})

MinOf(S) == CHOOSE m \in S : \A x \in S : m <= x

\* df.resample('W', on='date').agg(first, max, min, last, sum).dropna():
\* one bar per week that holds at least one daily bar
Resample(d) ==
    LET weeks == SortedSeq({Week(d[k].date) : k \in 1..Len(d)})
        rowsOf(w) == {k \in 1..Len(d) : Week(d[k].date) = w}
        first(w) == MinOf(rowsOf(w))
        last(w) == PyMax(rowsOf(w))
    IN  [i \in 1..Len(weeks) |->
            LET w == weeks[i]
            IN  Bar(7 * w + 7,
                    d[first(w)].open,
                    PyMax({d[k].high : k \in rowsOf(w)}),
                    MinOf({d[k].low : k \in rowsOf(w)}),
                    d[last(w)].close,
                    SumSet(Col(d, "volume"), rowsOf(w)),
                    0)]

\* the body of the try block of process_stock
weekly_process_stock_try(file_name) ==
    LET file == Disk[file_name.stem]
        d == file.rows
    IN  IF ~file.ok THEN Raise
        ELSE IF Len(d) = 0 \/ Len(d) < 30 THEN None
        ELSE LET last_price == Py(d, -1).close
             IN  IF ~(50 <= last_price /\ last_price <= 200) THEN None
                 ELSE Some([code |-> file_name.stem,
                            daily |-> check_strategy(d),
                            weekly |-> check_strategy(Resample(d))])

weekly_process_stock(file_name) ==
    LET code == file_name.stem
    IN  IF StartsWith(code, <<3, 0>>) THEN None
        ELSE LET r == weekly_process_stock_try(file_name)
             IN  IF IsRaise(r) THEN None ELSE r

-----------------------------------------------------------------------------
(* The rule engine on its own: a series is built, then the rule is applied *)

\* main has not been started
MainIdle ==
    /\ names_exists = TRUE
    /\ dir_exists = TRUE
    /\ listing = <<>>
    /\ mpc = "idle"
    /\ names_df = <<>>
    /\ valid_codes = {}
    /\ files = <<>>
    /\ status = <<>>
    /\ future = <<>>
    /\ taken = 0
    /\ results = <<>>
    /\ strategy_buckets = <<>>
    /\ hits = <<>>
    /\ daily_list = <<>>
    /\ weekly_list = <<>>
    /\ written = <<>>

RInit ==
    /\ prog \in {"v4", "picker", "weekly"}
    /\ names_dict = <<>>
    /\ MainIdle
    /\ \E in \in Inputs(prog) : df = BaseSeries(in[1], in[2])
    /\ edited = {}
    /\ rpc = "input"
    /\ out = None

\* one bar near the end of the series takes a shape
EditBar(off, shape) ==
    /\ rpc = "input"
    /\ off < Len(df)
    /\ off \notin edited
    /\ Cardinality(edited) < MaxEdits
    /\ shape \in Allowed(prog, off)
    /\ df' = [df EXCEPT ![Len(df) - off] = ShapeBar(shape, @)]
    /\ edited' = edited \cup {off}
    /\ UNCHANGED <<prog, rpc, out, names_dict>>
    /\ UNCHANGED mvars

RunV4 ==
    /\ rpc = "input"
    /\ prog = "v4"
    /\ out' = check_all_strategies(df)
    /\ rpc' = "done"
    /\ UNCHANGED <<prog, df, edited, names_dict>>
    /\ UNCHANGED mvars

\* the names_dict handed to analyze_stock by the rule engine
EngineCode == <<0, 0, 0, 0, 0, 1>>

EngineNames ==
    { <<>>,
      (EngineCode :> <<"P", "i", "n", "g", "A", "n">>),
      (EngineCode :> <<"*", "S", "T", "H", "u", "a">>),
      (EngineCode :> <<"L", "e", "S", "h", "i", "Tui">>) }

RunPicker ==
    /\ rpc = "input"
    /\ prog = "picker"
    /\ names_dict' \in EngineNames
    /\ out' = analyze_stock([code |-> <<1>>, ok |-> TRUE, rows |-> df], names_dict')
    /\ rpc' = "done"
    /\ UNCHANGED <<prog, df, edited>>
    /\ UNCHANGED mvars

RunWeekly ==
    /\ rpc = "input"
    /\ prog = "weekly"
    /\ out' = Some(check_strategy(df))
    /\ rpc' = "done"
    /\ UNCHANGED <<prog, df, edited, names_dict>>
    /\ UNCHANGED mvars

RNext ==
    \/ \E off \in Offsets, shape \in {"surge", "anchor", "anchor99", "pullback", "pullback50",
                                      "highvol", "breakout", "quietup", "weakup"} :
            EditBar(off, shape)
    \/ RunV4
    \/ RunPicker
    \/ RunWeekly

SpecRules == RInit /\ [][RNext]_vars

-----------------------------------------------------------------------------
(* The three main functions and the worker pool *)

\* the sequences of at most n distinct elements of S
RECURSIVE Arrangements(_, _)
Arrangements(S, n) ==
    IF n = 0 THEN {<<>>}
    ELSE LET shorter == Arrangements(S, n - 1)
         IN  shorter \cup {Append(a, x) : a \in {b \in shorter : Len(b) = n - 1}, x \in S}

Distinct(a) == \A i, j \in 1..Len(a) : a[i] = a[j] => i = j

MInit ==
    /\ prog \in {"v4", "picker", "weekly"}
    /\ names_exists \in BOOLEAN
    /\ dir_exists \in BOOLEAN
    /\ listing \in IF dir_exists
                   THEN {[k \in 1..Len(a) |-> CsvName(a[k])] :
                            a \in {b \in Arrangements(Stems, MaxFiles) : Distinct(b)}}
                   ELSE {<<>>}
    /\ mpc = "start"
    /\ names_dict = <<>>
    /\ names_df = <<>>
    /\ valid_codes = {}
    /\ files = <<>>
    /\ status = <<>>
    /\ future = <<>>
    /\ taken = 0
    /\ results = <<>>
    /\ strategy_buckets = <<>>
    /\ hits = <<>>
    /\ daily_list = <<>>
    /\ weekly_list = <<>>
    /\ written = <<>>
    /\ df = <<>>
    /\ edited = {}
    /\ rpc = "idle"
    /\ out = None

\* v4: lines 79-82; an absent stock_names.csv ends the run
V4_LoadNames ==
    /\ prog = "v4"
    /\ mpc = "start"
    /\ IF ~names_exists
       THEN /\ mpc' = "exit"
            /\ UNCHANGED <<names_df, valid_codes>>
       ELSE /\ names_df' = LoadNames
            /\ valid_codes' = {r.code : r \in Range(NotST(LoadNames))}
            /\ mpc' = "loaded"
    /\ UNCHANGED <<prog, names_dict, names_exists, dir_exists, listing, files, status, future,
                   taken, results, strategy_buckets, hits, daily_list, weekly_list, written>>
    /\ UNCHANGED rvars

\* Weekly_LoadNames going on with no names when stock_names.csv is absent
Weekly_LoadNames_tolerant ==
    /\ prog = "weekly"
    /\ mpc = "start"
    /\ names_df' = IF names_exists THEN NotST(LoadNames) ELSE <<>>
    /\ valid_codes' = IF names_exists THEN {r.code : r \in Range(NotST(LoadNames))} ELSE {}
    /\ mpc' = "loaded"
    /\ UNCHANGED <<prog, names_dict, names_exists, dir_exists, listing, files, status, future,
                   taken, results, strategy_buckets, hits, daily_list, weekly_list, written>>
    /\ UNCHANGED rvars

\* weekly: lines 90-94; names_df keeps the rows that are no ST names
Weekly_LoadNames ==
    /\ prog = "weekly"
    /\ mpc = "start"
    /\ IF ~names_exists
       THEN /\ mpc' = "exit"
            /\ UNCHANGED <<names_df, valid_codes>>
       ELSE /\ names_df' = NotST(LoadNames)
            /\ valid_codes' = {r.code : r \in Range(NotST(LoadNames))}
            /\ mpc' = "loaded"
    /\ UNCHANGED <<prog, names_dict, names_exists, dir_exists, listing, files, status, future,
                   taken, results, strategy_buckets, hits, daily_list, weekly_list, written>>
    /\ UNCHANGED rvars

\* picker: lines 78-82; an absent stock_names.csv leaves names_dict empty
Picker_LoadNames ==
    /\ prog = "picker"
    /\ mpc = "start"
    /\ names_dict' = IF names_exists THEN NamesDict ELSE <<>>
    /\ mpc' = "loaded"
    /\ UNCHANGED <<prog, names_exists, dir_exists, listing, names_df, valid_codes, files, status,
                   future, taken, results, strategy_buckets, hits, daily_list, weekly_list,
                   written>>
    /\ UNCHANGED rvars

\* the pool is handed the files fs: every unit is pending
Dispatch(fs) ==
    /\ files' = fs
    /\ status' = [k \in 1..Len(fs) |-> "pending"]
    /\ future' = [k \in 1..Len(fs) |-> None]
    /\ mpc' = "map"

\* f.endswith('.csv') and f.split('.')[0] in valid_codes
Selected(f) == f.ext = "csv" /\ f.stem \in valid_codes

\* v4: lines 84-86; os.listdir raises when the directory is absent
V4_ListFiles ==
    /\ prog = "v4"
    /\ mpc = "loaded"
    /\ IF ~dir_exists
       THEN /\ mpc' = "crash"
            /\ UNCHANGED <<files, status, future>>
       ELSE Dispatch(SelectSeq(listing, Selected))
    /\ UNCHANGED <<prog, names_dict, names_exists, dir_exists, listing, names_df, valid_codes,
                   taken, results, strategy_buckets, hits, daily_list, weekly_list, written>>
    /\ UNCHANGED rvars

\* weekly: lines 97-102
Weekly_ListFiles ==
    /\ prog = "weekly"
    /\ mpc = "loaded"
    /\ IF ~dir_exists
       THEN /\ mpc' = "exit"
            /\ UNCHANGED <<files, status, future>>
       ELSE Dispatch(SelectSeq(listing, Selected))
    /\ UNCHANGED <<prog, names_dict, names_exists, dir_exists, listing, names_df, valid_codes,
                   taken, results, strategy_buckets, hits, daily_list, weekly_list, written>>
    /\ UNCHANGED rvars

\* picker: lines 84-92
Picker_ListFiles ==
    /\ prog = "picker"
    /\ mpc = "loaded"
    /\ IF ~dir_exists
       THEN /\ mpc' = "exit"
            /\ UNCHANGED <<files, status, future>>
       ELSE Dispatch(SelectSeq(listing, LAMBDA f : f.ext = "csv"))
    /\ UNCHANGED <<prog, names_dict, names_exists, dir_exists, listing, names_df, valid_codes,
                   taken, results, strategy_buckets, hits, daily_list, weekly_list, written>>
    /\ UNCHANGED rvars

\* the outcome of each script's unit of work on every file of the directory
\* (the calls share no state, so an outcome depends on the file alone; for
\* analyze_stock also on whether names_dict is empty)
V4Calls == [s \in Stems |-> process_stock(CsvName(s))]
WeeklyCalls == [s \in Stems |-> weekly_process_stock(CsvName(s))]
PickerCalls == [s \in Stems |-> analyze_stock(Disk[s], NamesDict)]
PickerCallsNoNames == [s \in Stems |-> analyze_stock(Disk[s], <<>>)]

\* the call a worker makes for one unit of work
Call(f) ==
    CASE prog = "v4"     -> V4Calls[f.stem]
      [] prog = "picker" -> IF names_dict = <<>> THEN PickerCallsNoNames[f.stem]
                            ELSE PickerCalls[f.stem]
      [] prog = "weekly" -> WeeklyCalls[f.stem]

\* a free worker takes unit k
Start(k) ==
    /\ mpc = "map"
    /\ status[k] = "pending"
    /\ Cardinality({j \in 1..Len(files) : status[j] = "running"}) < PoolSize
    /\ status' = [status EXCEPT ![k] = "running"]
    /\ UNCHANGED <<prog, names_dict, names_exists, dir_exists, listing, mpc, names_df,
                   valid_codes, files, future, taken, results, strategy_buckets, hits,
                   daily_list, weekly_list, written>>
    /\ UNCHANGED rvars

\* the worker of unit k returns, or raises
Finish(k) ==
    /\ mpc = "map"
    /\ status[k] = "running"
    /\ future' = [future EXCEPT ![k] = Call(files[k])]
    /\ status' = [status EXCEPT ![k] = "done"]
    /\ UNCHANGED <<prog, names_dict, names_exists, dir_exists, listing, mpc, names_df,
                   valid_codes, files, taken, results, strategy_buckets, hits,
                   daily_list, weekly_list, written>>
    /\ UNCHANGED rvars

\* the result of unit k not being waited for
Ready_nowait(k) == TRUE

\* main blocks on the result of unit k until the unit is done
Ready(k) == status[k] = "done"

\* v4, weekly: the iterator of executor.map yields the next result, in the order
\* of files; an exception of the call is raised in main
MapNext ==
    /\ prog \in {"v4", "weekly"}
    /\ mpc = "map"
    /\ taken < Len(files)
    /\ Ready(taken + 1)
    /\ LET r == future[taken + 1]
       IN  IF IsRaise(r)
           THEN /\ mpc' = "crash"
                /\ UNCHANGED <<taken, results>>
           ELSE /\ taken' = taken + 1
                /\ results' = IF prog = "v4" /\ IsNone(r) THEN results ELSE Append(results, r)
                /\ UNCHANGED mpc
    /\ UNCHANGED <<prog, names_dict, names_exists, dir_exists, listing, names_df, valid_codes,
                   files, status, future, strategy_buckets, hits, daily_list, weekly_list,
                   written>>
    /\ UNCHANGED rvars

\* v4, weekly: the with block ends; shutdown waits for every unit
PoolExit ==
    /\ prog \in {"v4", "weekly"}
    /\ mpc = "map"
    /\ taken = Len(files)
    /\ \A k \in 1..Len(files) : status[k] = "done"
    /\ mpc' = "joined"
    /\ UNCHANGED <<prog, names_dict, names_exists, dir_exists, listing, names_df, valid_codes,
                   files, status, future, taken, results, strategy_buckets, hits, daily_list,
                   weekly_list, written>>
    /\ UNCHANGED rvars

\* picker: pool.starmap returns the list of all results, then the pool is
\* terminated; an exception of a call is raised in main
Starmap ==
    /\ prog = "picker"
    /\ mpc = "map"
    /\ \A k \in 1..Len(files) : Ready(k)
    /\ IF \E k \in 1..Len(files) : IsRaise(future[k])
       THEN /\ mpc' = "crash"
            /\ UNCHANGED <<taken, results>>
       ELSE /\ taken' = Len(files)
            /\ results' = future
            /\ mpc' = "joined"
    /\ UNCHANGED <<prog, names_dict, names_exists, dir_exists, listing, names_df, valid_codes,
                   files, status, future, strategy_buckets, hits, daily_list, weekly_list,
                   written>>
    /\ UNCHANGED rvars

\* names_df[names_df['code'] == code]['name'].values[0]
NameOf(code) ==
    LET k == MinOf({k \in 1..Len(names_df) : names_df[k].code = code})
    IN  names_df[k].name

\* strategy_buckets[s].append(row), the key s created when it is new
Put(b, s, row) ==
    IF \E k \in 1..Len(b) : b[k].s = s
    THEN LET k == CHOOSE k \in 1..Len(b) : b[k].s = s
         IN  [b EXCEPT ![k].stocks = Append(@, row)]
    ELSE Append(b, [s |-> s, stocks |-> <<row>>])

RECURSIVE PutStrategies(_, _, _)
\* for s in r['strategies'], from the i-th on
PutStrategies(b, r, i) ==
    IF i > Len(r.strategies) THEN b
    ELSE PutStrategies(Put(b, r.strategies[i],
                           [code |-> r.code, name |-> NameOf(r.code), pct |-> r.last_pct]),
                       r, i + 1)

RECURSIVE BuildBuckets(_, _, _)
\* for r in results, from the k-th on
BuildBuckets(b, rs, k) ==
    IF k > Len(rs) THEN b
    ELSE BuildBuckets(PutStrategies(b, Get(rs[k]), 1), rs, k + 1)

\* v4: lines 88-97
V4_Aggregate ==
    /\ prog = "v4"
    /\ mpc = "joined"
    /\ IF results = <<>>
       THEN /\ mpc' = "exit"
            /\ UNCHANGED strategy_buckets
       ELSE /\ strategy_buckets' = BuildBuckets(<<>>, results, 1)
            /\ mpc' = "write"
    /\ UNCHANGED <<prog, names_dict, names_exists, dir_exists, listing, names_df, valid_codes,
                   files, status, future, taken, results, hits, daily_list, weekly_list,
                   written>>
    /\ UNCHANGED rvars

\* sort_values(by='今日涨幅', ascending=False) with the default quicksort, which
\* is not stable: every order of the rows that is descending in pct
SortedByPct(stocks) ==
    LET n == Len(stocks)
        perms == {q \in [1..n -> 1..n] : \A i, j \in 1..n : q[i] = q[j] => i = j}
    IN  {[k \in 1..n |-> stocks[q[k]]] :
            q \in {q \in perms : \A k \in 1..(n - 1) : stocks[q[k]].pct >= stocks[q[k + 1]].pct}}

\* v4: lines 100-105, one bucket
V4_WriteBucket ==
    /\ prog = "v4"
    /\ mpc = "write"
    /\ LET i == Len(written) + 1
       IN  /\ \E s_df \in SortedByPct(strategy_buckets[i].stocks) :
                written' = Append(written, [file |-> strategy_buckets[i].s, rows |-> s_df])
           /\ mpc' = IF i = Len(strategy_buckets) THEN "exit" ELSE "write"
    /\ UNCHANGED <<prog, names_dict, names_exists, dir_exists, listing, names_df, valid_codes,
                   files, status, future, taken, results, strategy_buckets, hits, daily_list,
                   weekly_list>>
    /\ UNCHANGED rvars

\* a sorts before b by ['日期', '涨跌幅_数值'], both descending
PickBefore(a, b) == a.date > b.date \/ (a.date = b.date /\ a.pct > b.pct)

RECURSIVE StableSort(_, _, _)
\* sort_values on two columns is a stable sort: the rows from the k-th on are
\* inserted into sorted, each behind the rows it does not sort before
StableSort(sorted, rows, k) ==
    IF k > Len(rows) THEN sorted
    ELSE LET x == rows[k]
             later == {i \in 1..Len(sorted) : PickBefore(x, sorted[i])}
             pos == IF later = {} THEN Len(sorted) + 1 ELSE MinOf(later)
         IN  StableSort(SubSeq(sorted, 1, pos - 1) \o <<x>> \o SubSeq(sorted, pos, Len(sorted)),
                        rows, k + 1)

\* picker: lines 94-116
Picker_Aggregate ==
    /\ prog = "picker"
    /\ mpc = "joined"
    /\ hits' = SelectSeq(results, LAMBDA r : ~IsNone(r))
    /\ written' = IF hits' # <<>>
                  THEN <<[file |-> "pick",
                          rows |-> StableSort(<<>>, [k \in 1..Len(hits') |-> Get(hits'[k])], 1)]>>
                  ELSE written
    /\ mpc' = "exit"
    /\ UNCHANGED <<prog, names_dict, names_exists, dir_exists, listing, names_df, valid_codes,
                   files, status, future, taken, results, strategy_buckets, daily_list,
                   weekly_list>>
    /\ UNCHANGED rvars

\* [res['code'] for res in results if res and res[key]]
CodesWith(rs, key) ==
    LET sel == SelectSeq(rs, LAMBDA r : ~IsNone(r) /\ Get(r)[key])
    IN  [k \in 1..Len(sel) |-> Get(sel[k]).code]

\* weekly: lines 104-107
Weekly_Aggregate ==
    /\ prog = "weekly"
    /\ mpc = "joined"
    /\ daily_list' = CodesWith(results, "daily")
    /\ weekly_list' = CodesWith(results, "weekly")
    /\ mpc' = "write"
    /\ UNCHANGED <<prog, names_dict, names_exists, dir_exists, listing, names_df, valid_codes,
                   files, status, future, taken, results, strategy_buckets, hits, written>>
    /\ UNCHANGED rvars

\* names_df[names_df['code'].isin(codes)]
OutDf(codes) == SelectSeq(names_df, LAMBDA r : r.code \in Range(codes))

\* weekly: lines 110-119; both files are written whatever the lists hold
Weekly_Write ==
    /\ prog = "weekly"
    /\ mpc = "write"
    /\ written' = <<[file |-> "daily_pick", rows |-> OutDf(daily_list)],
                    [file |-> "weekly_pick", rows |-> OutDf(weekly_list)]>>
    /\ mpc' = "exit"
    /\ UNCHANGED <<prog, names_dict, names_exists, dir_exists, listing, names_df, valid_codes,
                   files, status, future, taken, results, strategy_buckets, hits, daily_list,
                   weekly_list>>
    /\ UNCHANGED rvars

MNext ==
    \/ V4_LoadNames
    \/ Weekly_LoadNames
    \/ Picker_LoadNames
    \/ V4_ListFiles
    \/ Weekly_ListFiles
    \/ Picker_ListFiles
    \/ \E k \in 1..Len(files) : Start(k)
    \/ \E k \in 1..Len(files) : Finish(k)
    \/ MapNext
    \/ PoolExit
    \/ Starmap
    \/ V4_Aggregate
    \/ V4_WriteBucket
    \/ Picker_Aggregate
    \/ Weekly_Aggregate
    \/ Weekly_Write

SpecScan == MInit /\ [][MNext]_vars

-----------------------------------------------------------------------------
(* Properties of the rule engine *)

\* the rules of check_all_strategies that hold on a series, whatever its length
RuleHolds(r, d) ==
    CASE r = "GeShanDaNiu"   -> GeShanDaNiu(d, 2) # <<>>
      [] r = "GaoLiangBuPo"  -> GaoLiangBuPo(d, 1) # <<>>
      [] r = "SanWeiYiTi"    -> SanWeiYiTi(d) # <<>>
      [] r = "CaoShangFei"   -> CaoShangFei(d) # <<>>
      [] r = "ZhuiZhangTing" -> ZhuiZhangTing(d) # <<>>

RuleNames == {"GeShanDaNiu", "GaoLiangBuPo", "SanWeiYiTi", "CaoShangFei", "ZhuiZhangTing"}

\* the name analyze_stock looks up in the rule engine
EngineName ==
    IF EngineCode \in DOMAIN names_dict THEN names_dict[EngineCode] ELSE UnknownName

\* C5: a series shorter than one rule's minimum length silences only that rule;
\* ZhuiZhangTing, whose own minimum is 3 bars, still matches a series of 3 or
\* more bars whenever its conditions hold.
C5_PerRuleMinimum ==
    (rpc = "done" /\ prog = "v4" /\ Len(df) >= 3 /\ ZhuiZhangTingCond(df))
        => "ZhuiZhangTing" \in Range(out)

\* C6: below its minimum length (65, 60, 35) a rule never matches, and from
\* exactly that length on the series is evaluated: the rule matches exactly
\* when its conditions hold.
C6_MinLengthBoundary ==
    rpc = "done" =>
        /\ prog = "v4" =>
              /\ Len(df) < 65 => out = <<>>
              /\ Len(df) >= 65 => \A r \in RuleNames : r \in Range(out) <=> RuleHolds(r, df)
        /\ prog = "picker" =>
              /\ Len(df) < 60 => IsNone(out)
              /\ (Len(df) >= 60 /\ ~PickerExcluded(EngineName)) =>
                    (~IsNone(out) <=> /\ has_recent_limit_up(df)
                                      /\ on_support(df)
                                      /\ is_shrinking_vol(df)
                                      /\ is_positive_candle(df)
                                      /\ is_volume_rebound(df))
        /\ prog = "weekly" =>
              /\ Len(df) < 35 => out = Some(FALSE)
              /\ Len(df) >= 35 => out = Some(MacdCond(df))

\* a series of exactly the minimum length of check_all_strategies that matched a rule
C6_Witness == rpc = "done" /\ prog = "v4" /\ Len(df) = 65 /\ out # <<>>

\* the scenario of the spec on a 20-bar series, bars numbered from 0
BreakoutScenario20(d) ==
    /\ Len(d) = 20
    /\ d[11].pct_chg = 99
    /\ d[11].close < d[11].open
    /\ \A k \in 1..11 : d[k].volume <= d[11].volume
    /\ d[15].close < d[15].open
    /\ 2 * d[15].volume <= d[11].volume
    /\ d[20].close > d[15].high
    /\ \A k \in 11..20 : d[k].low >= d[11].low

\* C9: on the 20-bar breakout scenario (bar 10 surging, bearish and the volume
\* maximum, bar 14 bearish on at most half the volume, the last close above bar
\* 14's high, bar 10's low never undercut) GeShanDaNiu reports a match.
C9_BreakoutScenario ==
    (rpc = "done" /\ prog = "v4" /\ BreakoutScenario20(df)) => "GeShanDaNiu" \in Range(out)

\* an anchor / pullback / confirm chain as check_all_strategies requires it:
\* a (1-based position of the anchor), j (of the pullback bar)
BreakoutChain(d, a, j) ==
    LET n == Len(d)
    IN  /\ a \in (n - 13)..(n - 1)
        /\ j \in (a + 1)..n
        /\ d[a - 1].pct_chg > 95
        /\ d[a].close < d[a].open
        /\ \A k \in (a - 20)..a : d[k].volume <= d[a].volume
        /\ d[j].close < d[j].open
        /\ 2 * d[j].volume < d[a].volume
        /\ d[n].close > d[j].high
        /\ \A k \in a..n : d[k].low >= d[a].low

\* C9 (amended): on a series of at least 65 bars with a bearish anchor among
\* the 2nd to 14th most recent bars that is the volume maximum of the 21 bars
\* ending at it and follows a bar with pct_chg > 9.5, a later bearish bar on
\* strictly less than half the anchor's volume, the last close above that
\* bar's high and the anchor's low never undercut, GeShanDaNiu reports a match.
C9_BreakoutAmended ==
    (rpc = "done" /\ prog = "v4" /\ Len(df) >= 65
        /\ \E a \in 1..Len(df), j \in 1..Len(df) : BreakoutChain(df, a, j))
        => "GeShanDaNiu" \in Range(out)

\* a 65-bar series with a breakout chain on which the rule was run
C9_Witness ==
    /\ rpc = "done" /\ prog = "v4" /\ Len(df) = 65
    /\ \E a \in 1..Len(df), j \in 1..Len(df) : BreakoutChain(df, a, j)
    /\ "GeShanDaNiu" \in Range(out)

\* the four conditions of the composite rule, read off the last six bars
CompositeA(d) == \E k \in (Len(d) - 5)..(Len(d) - 1) : d[k].pct_chg >= 98

CompositeB(d) ==
    LET n == Len(d)
        sum13 == SumSet(Col(d, "close"), (n - 12)..n)
        sum55 == SumSet(Col(d, "close"), (n - 54)..n)
    IN  /\ 55 * sum13 > 13 * sum55
        /\ 100 * 13 * d[n].close >= 99 * sum13

CompositeC(d) ==
    LET n == Len(d)
    IN  \E k \in (n - 5)..(n - 2) :
            /\ \A m \in (n - 5)..(n - 2) : d[m].volume <= d[k].volume
            /\ 10 * d[n - 1].volume < 7 * d[k].volume

CompositeD(d) ==
    LET n == Len(d)
    IN  /\ d[n].pct_chg > 10
        /\ d[n].volume > d[n - 1].volume
        /\ 5 * d[n].volume > SumSet(Col(d, "volume"), (n - 4)..n)

\* C10: on a series of at least 60 bars of an instrument that is not excluded,
\* analyze_stock returns a match exactly when (a) a bar of the window before
\* today gained at least 9.8%, (b) MA13 > MA55 and the close is at least
\* 0.99 * MA13, (c) yesterday's volume is below 70% of the largest volume
\* earlier in the window, (d) today gained more than 1% on a volume above
\* yesterday's and above the 5-period average.
C10_CompositeConjunction ==
    (rpc = "done" /\ prog = "picker" /\ Len(df) >= 60 /\ ~PickerExcluded(EngineName))
        => (~IsNone(out) <=> (CompositeA(df) /\ CompositeB(df) /\ CompositeC(df) /\ CompositeD(df)))

\* analyze_stock returned a match on a series of exactly 60 bars
C10_Witness ==
    /\ rpc = "done" /\ prog = "picker" /\ Len(df) = 60
    /\ ~PickerExcluded(EngineName) /\ ~IsNone(out)

-----------------------------------------------------------------------------
(* Properties of the scans *)

AllDone == \A k \in 1..Len(files) : status[k] = "done"

\* the unit of work of file f fails: its try block raises
Fails(f) == ~Disk[f.stem].ok

NotNone(rs) == SelectSeq(rs, LAMBDA r : ~IsNone(r))

RECURSIVE SequentialScan(_, _)
\* the calls made one after the other on the files fs from the k-th on
SequentialScan(fs, k) ==
    IF k > Len(fs) THEN <<>>
    ELSE <<Call(fs[k])>> \o SequentialScan(fs, k + 1)

\* C1: a unit of work that fails yields None, the scan is not aborted by it,
\* and main collects from the other units what a scan without the failing
\* files collects.
C1_ErrorIsolation ==
    /\ mpc = "crash" => (files = <<>> /\ ~dir_exists)
    /\ \A k \in 1..Len(files) : (status[k] = "done" /\ Fails(files[k])) => future[k] = None
    /\ mpc \in {"joined", "write", "exit"} =>
          NotNone(results) =
              NotNone(SequentialScan(SelectSeq(files, LAMBDA f : ~Fails(f)), 1))

\* the pool was joined after a failing unit and another unit that matched
C1_Witness ==
    /\ mpc = "joined"
    /\ \E k \in 1..Len(files) : Fails(files[k])
    /\ NotNone(results) # <<>>

\* C2: the aggregation (strategy_buckets, hits, daily_list and weekly_list, the
\* files written) starts only when every dispatched unit of work is done.
C2_JoinBarrier ==
    (\/ mpc \in {"joined", "write"}
     \/ strategy_buckets # <<>> \/ hits # <<>> \/ daily_list # <<>> \/ weekly_list # <<>>
     \/ written # <<>>)
        => AllDone

\* the pool was joined on at least two units
C2_Witness == mpc = "joined" /\ Len(files) >= 2 /\ AllDone

\* how often the instrument code is in the bucket of rule s
InBucket(s, code) ==
    LET ks == {k \in 1..Len(strategy_buckets) : strategy_buckets[k].s = s}
    IN  IF ks = {} THEN 0
        ELSE LET b == strategy_buckets[CHOOSE k \in ks : TRUE].stocks
             IN  Cardinality({i \in 1..Len(b) : b[i].code = code})

\* rule s matched the series of the instrument
Matched(s, stem) ==
    /\ Disk[stem].ok
    /\ s \in Range(check_all_strategies(Disk[stem].rows))

\* C3: once strategy_buckets is built, an instrument of the scan is in the
\* bucket of a rule exactly once if the rule matched its series, and not at
\* all otherwise.
C3_FanOut ==
    (prog = "v4" /\ mpc \in {"write", "exit"} /\ results # <<>>) =>
        \A k \in 1..Len(files), s \in RuleNames :
            InBucket(s, files[k].stem) = IF Matched(s, files[k].stem) THEN 1 ELSE 0

RECURSIVE CodeLeq(_, _)
\* a <= b in the order of the identifiers
CodeLeq(a, b) ==
    IF a = <<>> THEN TRUE
    ELSE IF b = <<>> THEN FALSE
    ELSE IF Head(a) # Head(b) THEN Head(a) < Head(b)
    ELSE CodeLeq(Tail(a), Tail(b))

\* C4: the rows of every result file are in descending order of the percent
\* change, rows of equal percent change in the order of their identifiers.
C4_TotalRanking ==
    prog = "v4" =>
        \A i \in 1..Len(written) :
            LET rows == written[i].rows
            IN  \A k \in 1..(Len(rows) - 1) :
                    \/ rows[k].pct > rows[k + 1].pct
                    \/ rows[k].pct = rows[k + 1].pct /\ CodeLeq(rows[k].code, rows[k + 1].code)

\* a unit of work was handed to the pool
Dispatched == files # <<>>

\* C7: when stock_names.csv or the directory stock_data is absent, no unit of
\* work is dispatched and no result file is written.
C7_FatalBeforeDispatch ==
    (~names_exists \/ ~dir_exists) => (~Dispatched /\ written = <<>>)

\* C7 (amended): in comprehensive_strategy_v4 and weekly_trend_filter an absent
\* stock_names.csv or stock_data, and in stock_strategy_picker an absent
\* stock_data, ends the run before any unit of work is dispatched and before
\* any result file is written.
C7_FatalAmended ==
    (\/ prog \in {"v4", "weekly"} /\ (~names_exists \/ ~dir_exists)
     \/ prog = "picker" /\ ~dir_exists)
        => (~Dispatched /\ written = <<>>)

\* weekly_trend_filter has returned for want of stock_names.csv
C7_Witness == prog = "weekly" /\ ~names_exists /\ dir_exists /\ mpc = "exit"

\* C8: a result file is written only for a list of matches that is not empty.
C8_NoOutputOnZero ==
    \A i \in 1..Len(written) : written[i].rows # <<>>

====
